---- MODULE Spec2Model ----
(***************************************************************************)
(* FlipperModel (flipper_model.py): a user-account store over one sqlite3  *)
(* table, users(username TEXT PRIMARY KEY, registration_time INTEGER,      *)
(* password TEXT).  The module targets Python 2 (`except sqlite3.Error, e`)*)
(* so the statements run with the Python 2 sqlite3 binding: DML opens an   *)
(* implicit transaction, other statements commit first, `with conn`        *)
(* commits on normal exit and rolls back on an exception.                  *)
(***************************************************************************)
EXTENDS Integers, Sequences, FiniteSets, TLC

\* ------------------------------------------------------------------ bounds
MaxTime == 2          \* the wall clock runs over 0..MaxTime ticks
TicksPerSecond == 2   \* resolution of time.time(): ticks per whole second

\* ------------------------------------------------------- Python 2 strings
\* A Python 2 string is a str (bytes) or a unicode (code points).
Str(cs) == [type |-> "str", chars |-> cs]
Uni(cs) == [type |-> "unicode", chars |-> cs]

wesc     == Str(<<119, 101, 115, 99>>)                       \* 'wesc'
roy      == Str(<<114, 111, 121>>)                           \* 'roy'
uroy     == Uni(<<114, 111, 121>>)                           \* u'roy'
jose     == Str(<<106, 111, 115, 233>>)                      \* 'jos\xe9' (latin-1 bytes)
wescpass == Str(<<119, 101, 115, 99, 112, 97, 115, 115>>)    \* 'wescpass'
upass    == Uni(<<112, 233>>)                                \* u'p\xe9'
bpass    == Str(<<112, 233>>)                                \* 'p\xe9'
NoString == Str(<<>>)

Usernames == {wesc, roy, uroy, jose}
Passwords == {wescpass, upass, bpass}
Conns     == {"fm1", "fm2"}

IsAscii(cs) == \A i \in 1..Len(cs) : cs[i] < 128

\* UTF-8 of a sequence of code points below 2048.
RECURSIVE Utf8Encode(_)
Utf8Encode(cps) ==
    IF cps = <<>> THEN <<>>
    ELSE LET cp == Head(cps) IN
         (IF cp < 128 THEN <<cp>>
          ELSE <<192 + (cp \div 64), 128 + (cp % 64)>>) \o Utf8Encode(Tail(cps))

\* The code points of a UTF-8 byte sequence (one- and two-byte forms).
RECURSIVE Utf8Decode(_)
Utf8Decode(bs) ==
    IF bs = <<>> THEN <<>>
    ELSE IF Head(bs) < 128 \/ Len(bs) < 2 THEN <<Head(bs)>> \o Utf8Decode(Tail(bs))
    ELSE <<(Head(bs) - 192) * 64 + (bs[2] - 128)>> \o Utf8Decode(Tail(Tail(bs)))

\* Python 2 `a == b` on strings: a str meets a unicode through the ASCII
\* codec; a str with a byte >= 128 equals no unicode.
PyEq(a, b) ==
    IF a.type = b.type THEN a.chars = b.chars
    ELSE LET s == IF a.type = "str" THEN a ELSE b
             u == IF a.type = "str" THEN b ELSE a
         IN  IsAscii(s.chars) /\ s.chars = u.chars

\* Binding a string parameter: an 8-bit bytestring is refused with
\* ProgrammingError (text_factory is unicode), everything else is stored as
\* UTF-8 text.
BindText(s) ==
    IF s.type = "str"
    THEN IF IsAscii(s.chars) THEN [error |-> "none", text |-> s.chars]
         ELSE [error |-> "ProgrammingError", text |-> <<>>]
    ELSE [error |-> "none", text |-> Utf8Encode(s.chars)]

\* A TEXT column comes back as a unicode object.
TextFactory(text) == Uni(Utf8Decode(text))

\* ------------------------------------------------------------ time.time()
\* time.time() is a float: whole seconds plus a fraction (in ticks).
TimeValue(t) == [type |-> "REAL", whole |-> t \div TicksPerSecond, frac |-> t % TicksPerSecond]

\* INTEGER column affinity: a REAL is stored as INTEGER only when it has no
\* fractional part, otherwise it stays a REAL.
IntegerAffinity(v) ==
    IF v.type = "REAL" /\ v.frac = 0 THEN [v EXCEPT !.type = "INTEGER"] ELSE v

\* ------------------------------------------------------------------ state
VARIABLES
    db,        \* the database file: [tables, users], users in rowid order
    conn,      \* per FlipperModel instance: [inTransaction, pending]
    now,       \* the wall clock, in ticks
    call,      \* the last call: [op, conn, username, password, before (the db it found)]
    ret,       \* what it returned: [kind, error (the exception inside), row, rows]
    created,   \* history: the create_user calls that returned True
    inits,     \* history: the instances whose init_tables returned True
    script,    \* history: the create_user calls so far, while none is repeated
    repeated   \* history: a create_user call repeated a username or preceded the schema

vars == <<db, conn, now, call, ret, created, inits, script, repeated>>

Idle == [inTransaction |-> FALSE, pending |-> <<>>]

\* A row is the tuple (username, registration_time, password).
NoRow   == [username |-> Uni(<<>>), registration_time |-> TimeValue(0), password |-> Uni(<<>>)]

\* dict(zip(columns, row))
Zip(row) == [username          |-> TextFactory(row[1]),
             registration_time |-> row[2],
             password          |-> TextFactory(row[3])]

\* ----------------------------------------------------- sqlite3.Connection
\* Connection.commit(): COMMIT when a transaction is open.
Commit(cs, d) ==
    IF cs.inTransaction
    THEN [cs |-> Idle, db |-> [d EXCEPT !.users = d.users \o cs.pending]]
    ELSE [cs |-> cs, db |-> d]

\* Connection.rollback(): ROLLBACK when a transaction is open.
Rollback(cs, d) ==
    IF cs.inTransaction THEN [cs |-> Idle, db |-> d] ELSE [cs |-> cs, db |-> d]

\* Mutant of ConnExit: the scope commits on normal exit and does nothing when
\* an exception leaves it.
ConnExitNoRollback(cs, d, error) ==
    IF error = "none" THEN Commit(cs, d) ELSE [cs |-> cs, db |-> d]

\* Connection.__exit__: commit without an exception, roll back with one; the
\* exception is never suppressed.
ConnExit(cs, d, error) ==
    IF error = "none" THEN Commit(cs, d) ELSE Rollback(cs, d)

\* The implicit BEGIN before INSERT/UPDATE/DELETE/REPLACE.
Begin(cs) == IF cs.inTransaction THEN cs ELSE [inTransaction |-> TRUE, pending |-> <<>>]

\* The rows a connection sees: the committed ones and its own pending ones.
Visible(cs, d) == d.users \o (IF cs.inTransaction THEN cs.pending ELSE <<>>)

Result(error, cs, d, rows) == [error |-> error, cs |-> cs, db |-> d, rows |-> rows]

\* Mutant of ExecuteCreateTable: CREATE TABLE IF NOT EXISTS.
ExecuteCreateTableIfNotExists(cs, d) ==
    LET c == Commit(cs, d) IN
    Result("none", c.cs, [c.db EXCEPT !.tables = @ \cup {"users"}], <<>>)

\* Mutant of ExecuteCreateTable: DROP TABLE IF EXISTS users, then CREATE TABLE.
ExecuteDropAndCreateTable(cs, d) ==
    LET c == Commit(cs, d) IN
    Result("none", c.cs, [tables |-> {"users"}, users |-> <<>>], <<>>)

\* conn.execute("CREATE TABLE users (username TEXT PRIMARY KEY, ...)")
ExecuteCreateTable(cs, d) ==
    IF "users" \in d.tables
    THEN Result("OperationalError", cs, d, <<>>)
    ELSE LET c == Commit(cs, d) IN   \* a non-DML statement commits first
         Result("none", c.cs, [tables |-> c.db.tables \cup {"users"}, users |-> <<>>], <<>>)

\* Mutant of ExecuteInsert: INSERT OR REPLACE, the stored row of the username
\* gives way to the new one.
ExecuteInsertOrReplace(cs, d, username, password, t) ==
    IF "users" \notin d.tables
    THEN Result("OperationalError", cs, d, <<>>)
    ELSE LET c1 == Begin(cs)
             bu == BindText(username)
             bp == BindText(password)
         IN  IF bu.error # "none" THEN Result(bu.error, c1, d, <<>>)
             ELSE IF bp.error # "none" THEN Result(bp.error, c1, d, <<>>)
             ELSE Result("none",
                         [c1 EXCEPT !.pending =
                             Append(@, <<bu.text, IntegerAffinity(TimeValue(t)), bp.text>>)],
                         [d EXCEPT !.users = SelectSeq(@, LAMBDA r : r[1] # bu.text)],
                         <<>>)

\* Mutant of ExecuteInsert: username is no PRIMARY KEY, every INSERT succeeds.
ExecuteInsertNoKey(cs, d, username, password, t) ==
    IF "users" \notin d.tables
    THEN Result("OperationalError", cs, d, <<>>)
    ELSE LET c1 == Begin(cs)
             bu == BindText(username)
             bp == BindText(password)
         IN  IF bu.error # "none" THEN Result(bu.error, c1, d, <<>>)
             ELSE IF bp.error # "none" THEN Result(bp.error, c1, d, <<>>)
             ELSE Result("none",
                         [c1 EXCEPT !.pending =
                             Append(@, <<bu.text, IntegerAffinity(TimeValue(t)), bp.text>>)],
                         d, <<>>)

\* conn.execute("INSERT INTO users (username, password, registration_time)
\*               VALUES (?, ?, ?)", (username, password, time.time()))
ExecuteInsert(cs, d, username, password, t) ==
    IF "users" \notin d.tables
    THEN Result("OperationalError", cs, d, <<>>)
    ELSE LET c1 == Begin(cs)
             bu == BindText(username)
             bp == BindText(password)
         IN  IF bu.error # "none" THEN Result(bu.error, c1, d, <<>>)
             ELSE IF bp.error # "none" THEN Result(bp.error, c1, d, <<>>)
             ELSE IF \E i \in 1..Len(Visible(c1, d)) : Visible(c1, d)[i][1] = bu.text
             THEN Result("IntegrityError", c1, d, <<>>)
             ELSE Result("none",
                         [c1 EXCEPT !.pending =
                             Append(@, <<bu.text, IntegerAffinity(TimeValue(t)), bp.text>>)],
                         d, <<>>)

\* conn.execute("SELECT * FROM users WHERE username = ?", (username,))
ExecuteSelectUser(cs, d, username) ==
    IF "users" \notin d.tables
    THEN Result("OperationalError", cs, d, <<>>)
    ELSE LET bu == BindText(username) IN
         IF bu.error # "none" THEN Result(bu.error, cs, d, <<>>)
         ELSE Result("none", cs, d,
                     SelectSeq(Visible(cs, d), LAMBDA r : r[1] = bu.text))

\* conn.execute("SELECT * FROM users")
ExecuteSelectAll(cs, d) ==
    IF "users" \notin d.tables
    THEN Result("OperationalError", cs, d, <<>>)
    ELSE Result("none", cs, d, Visible(cs, d))

\* ------------------------------------------------------------ FlipperModel
\* Every exception the statements raise derives from sqlite3.Error.
SqliteError == {"OperationalError", "IntegrityError", "ProgrammingError"}

Outcome(kind, error, row, rows, cs, d) ==
    [kind |-> kind, error |-> error, row |-> row, rows |-> rows, cs |-> cs, db |-> d]

\* init_tables(self): try / with self.conn / CREATE TABLE / return True;
\* except sqlite3.Error: pass; return False
init_tables(cs, d) ==
    LET r == ExecuteCreateTable(cs, d)
        e == ConnExit(r.cs, r.db, r.error)
    IN  IF r.error = "none" THEN Outcome("True", "none", NoRow, <<>>, e.cs, e.db)
        ELSE IF r.error \in SqliteError
        THEN Outcome("False", r.error, NoRow, <<>>, e.cs, e.db)
        ELSE Outcome("raise", r.error, NoRow, <<>>, e.cs, e.db)

\* Mutant of create_user: `except sqlite3.IntegrityError` in place of
\* `except sqlite3.Error`.
create_user_integrity_only(cs, d, username, password, t) ==
    LET r == ExecuteInsert(cs, d, username, password, t)
        e == ConnExit(r.cs, r.db, r.error)
    IN  IF r.error = "none" THEN Outcome("True", "none", NoRow, <<>>, e.cs, e.db)
        ELSE IF r.error = "IntegrityError"
        THEN Outcome("False", r.error, NoRow, <<>>, e.cs, e.db)
        ELSE Outcome("raise", r.error, NoRow, <<>>, e.cs, e.db)

\* create_user(self, username, password): try / with self.conn / INSERT /
\* return True; except sqlite3.Error: pass; return False
create_user(cs, d, username, password, t) ==
    LET r == ExecuteInsert(cs, d, username, password, t)
        e == ConnExit(r.cs, r.db, r.error)
    IN  IF r.error = "none" THEN Outcome("True", "none", NoRow, <<>>, e.cs, e.db)
        ELSE IF r.error \in SqliteError
        THEN Outcome("False", r.error, NoRow, <<>>, e.cs, e.db)
        ELSE Outcome("raise", r.error, NoRow, <<>>, e.cs, e.db)

\* _fetchone(self, sel, params) with the query of get_user: the first row as
\* a dict, None when there is none; exceptions pass through.
fetchone(cs, d, username) ==
    LET r == ExecuteSelectUser(cs, d, username)
        e == ConnExit(r.cs, r.db, r.error)
    IN  IF r.error # "none" THEN Outcome("raise", r.error, NoRow, <<>>, e.cs, e.db)
        ELSE IF r.rows # <<>> /\ Len(Head(r.rows)) > 0      \* `if row:`
        THEN Outcome("dict", "none", Zip(Head(r.rows)), <<>>, e.cs, e.db)
        ELSE Outcome("None", "none", NoRow, <<>>, e.cs, e.db)

\* Mutant of get_user: a caught storage error is reported as None.
get_user_none(cs, d, username) ==
    LET o == fetchone(cs, d, username) IN
    IF o.kind = "raise" /\ o.error \in SqliteError
    THEN [o EXCEPT !.kind = "None", !.error = "none"]
    ELSE o

\* get_user(self, username): try / return self._fetchone(...);
\* except sqlite3.Error: pass; return False
get_user(cs, d, username) ==
    LET o == fetchone(cs, d, username) IN
    IF o.kind = "raise" /\ o.error \in SqliteError
    THEN [o EXCEPT !.kind = "False"]
    ELSE o

\* _fetchall(self, 'SELECT * FROM users'): every row as a dict, in rowid
\* order; exceptions pass through.
fetchall(cs, d) ==
    LET r == ExecuteSelectAll(cs, d)
        e == ConnExit(r.cs, r.db, r.error)
    IN  IF r.error # "none" THEN Outcome("raise", r.error, NoRow, <<>>, e.cs, e.db)
        ELSE Outcome("list", "none", NoRow,
                     [i \in 1..Len(r.rows) |-> Zip(r.rows[i])], e.cs, e.db)

\* ---------------------------------------------------------------- actions
EmptyDb == [tables |-> {}, users |-> <<>>]

Call(op, c, username, password) ==
    [op |-> op, conn |-> c, username |-> username, password |-> password, before |-> db]

Returned(o) == [kind |-> o.kind, error |-> o.error, row |-> o.row, rows |-> o.rows]

\* FlipperModel(db_filename) on a fresh file, opened by every instance.
Init ==
    /\ db = EmptyDb
    /\ conn = [c \in Conns |-> Idle]
    /\ now = 0
    /\ call = [op |-> "none", conn |-> "fm1", username |-> NoString,
               password |-> NoString, before |-> EmptyDb]
    /\ ret = [kind |-> "none", error |-> "none", row |-> NoRow, rows |-> <<>>]
    /\ created = <<>>
    /\ inits = <<>>
    /\ script = {}
    /\ repeated = FALSE

Apply(c, o) ==
    /\ db' = o.db
    /\ conn' = [conn EXCEPT ![c] = o.cs]
    /\ ret' = Returned(o)

InitTables(c) ==
    LET o == init_tables(conn[c], db) IN
    /\ Apply(c, o)
    /\ call' = Call("init_tables", c, NoString, NoString)
    /\ inits' = IF o.kind = "True" THEN Append(inits, c) ELSE inits
    /\ UNCHANGED <<now, created, script, repeated>>

CreateUser(c, username, password) ==
    LET o   == create_user(conn[c], db, username, password, now)
        rep == \/ repeated
               \/ "users" \notin db.tables
               \/ \E a \in script : PyEq(a.username, username)
    IN
    /\ Apply(c, o)
    /\ call' = Call("create_user", c, username, password)
    /\ created' = IF o.kind = "True"
                  THEN Append(created, [username |-> username, password |-> password,
                                        time |-> now])
                  ELSE created
    /\ repeated' = rep
    /\ script' = IF rep THEN {}
                 ELSE script \cup {[username |-> username, password |-> password]}
    /\ UNCHANGED <<now, inits>>

GetUser(c, username) ==
    /\ Apply(c, get_user(conn[c], db, username))
    /\ call' = Call("get_user", c, username, NoString)
    /\ UNCHANGED <<now, created, inits, script, repeated>>

FetchOne(c, username) ==
    /\ Apply(c, fetchone(conn[c], db, username))
    /\ call' = Call("_fetchone", c, username, NoString)
    /\ UNCHANGED <<now, created, inits, script, repeated>>

FetchAll(c) ==
    /\ Apply(c, fetchall(conn[c], db))
    /\ call' = Call("_fetchall", c, NoString, NoString)
    /\ UNCHANGED <<now, created, inits, script, repeated>>

\* The wall clock advances between calls.
Tick ==
    /\ now < MaxTime
    /\ now' = now + 1
    /\ UNCHANGED <<db, conn, call, ret, created, inits, script, repeated>>

Next ==
    \/ \E c \in Conns : InitTables(c)
    \/ \E c \in Conns, u \in Usernames, p \in Passwords : CreateUser(c, u, p)
    \/ \E c \in Conns, u \in Usernames : GetUser(c, u)
    \/ \E c \in Conns, u \in Usernames : FetchOne(c, u)
    \/ \E c \in Conns : FetchAll(c)
    \/ Tick

Spec == Init /\ [][Next]_vars

\* ------------------------------------------------------------- properties
IsCall(op) == call.op = op

\* The create_user calls that returned True for a username equal to u.
CreatedAs(u) == {i \in 1..Len(created) : PyEq(created[i].username, u)}

\* The stored rows whose username reads back equal to u.
RowsOf(d, u) == {i \in 1..Len(d.users) : PyEq(TextFactory(d.users[i][1]), u)}

\* The time of a registration_time value, in ticks.
Ticks(v) == v.whole * TicksPerSecond + v.frac

\* C1: on an initialized store create_user(username, password) returns True
\* for every pair of strings whose username is not yet present, and every
\* later get_user(username) returns a record with that username and password.
C1_CreateThenGet ==
    /\ (IsCall("create_user") /\ "users" \in call.before.tables
            /\ RowsOf(call.before, call.username) = {})
       => ret.kind = "True"
    /\ IsCall("get_user") =>
         \A i \in CreatedAs(call.username) :
            /\ ret.kind = "dict"
            /\ PyEq(ret.row.username, created[i].username)
            /\ PyEq(ret.row.password, created[i].password)

\* C2: once create_user(u, p1) has returned True, every later
\* create_user(u, p2) returns False, get_user(u) still returns the password
\* and registration_time of the first call, and at most one create_user call
\* per username ever returns True.
C2_NoOverwrite ==
    /\ \A i, j \in 1..Len(created) :
          i # j => ~PyEq(created[i].username, created[j].username)
    /\ (IsCall("create_user") /\ RowsOf(call.before, call.username) # {})
       => (ret.kind = "False" /\ db = call.before)
    /\ IsCall("get_user") =>
         \A i \in CreatedAs(call.username) :
            /\ ret.kind = "dict"
            /\ PyEq(ret.row.password, created[i].password)
            /\ Ticks(ret.row.registration_time) = created[i].time

\* C2 witness: a second create_user for a stored username, with another
\* password, has returned False.
C2_Witness ==
    /\ IsCall("create_user") /\ ret.kind = "False"
    /\ \E i \in CreatedAs(call.username) :
          /\ ~PyEq(created[i].password, call.password)
          /\ BindText(call.password).error = "none"

\* C3: on a fresh database the first init_tables() returns True and creates
\* the users table; every later init_tables(), from any instance on the same
\* file, returns False, raises nothing and leaves table and rows unchanged.
C3_InitOnce ==
    /\ Len(inits) <= 1
    /\ IsCall("init_tables") =>
          /\ ret.kind \in {"True", "False"}
          /\ call.before.tables = {} => (ret.kind = "True" /\ "users" \in db.tables)
          /\ call.before.tables # {} => (ret.kind = "False" /\ db = call.before)

\* C3 witness: init_tables has returned False on another instance than the
\* one that created the table, with rows stored.
C3_Witness ==
    /\ IsCall("init_tables") /\ ret.kind = "False"
    /\ Len(inits) = 1 /\ inits[1] # call.conn
    /\ Len(db.users) > 0

\* C4 (as stated): after any sequence of operations get_user(u) for a
\* username never successfully inserted returns None; False is returned only
\* on a storage error and None only when the query ran and matched no row.
C4_NeverInsertedIsNone ==
    IsCall("get_user") =>
       /\ CreatedAs(call.username) = {} => ret.kind = "None"
       /\ ret.kind = "False" => ret.error \in SqliteError
       /\ ret.kind = "None" => (ret.error = "none" /\ RowsOf(db, call.username) = {})

\* C4 (amended): get_user(u) for a username never successfully inserted
\* returns None when the users table exists and u binds as a parameter, and
\* False when the lookup raises a storage error; False is returned only on a
\* storage error and None only when the query ran and matched no row.
C4_NotFoundOrError ==
    IsCall("get_user") =>
       /\ (CreatedAs(call.username) = {} /\ "users" \in db.tables
              /\ BindText(call.username).error = "none") => ret.kind = "None"
       /\ (CreatedAs(call.username) = {}
              /\ ("users" \notin db.tables \/ BindText(call.username).error # "none"))
          => ret.kind = "False"
       /\ ret.kind = "False" <=> ret.error \in SqliteError
       /\ ret.kind = "None" => (ret.error = "none" /\ RowsOf(db, call.username) = {})

\* C4 witness: get_user has returned None for a username never inserted
\* while another user is stored.
C4_Witness ==
    /\ IsCall("get_user") /\ ret.kind = "None"
    /\ CreatedAs(call.username) = {}
    /\ Len(db.users) > 0

\* C5 (as stated): after init_tables() on an empty store and create_user
\* calls for n pairwise distinct usernames, _fetchall('SELECT * FROM users')
\* returns exactly n records, one per call, with the username and password
\* supplied; with no rows stored it returns the empty list.
C5_FetchAllScript ==
    (IsCall("_fetchall") /\ "users" \in db.tables /\ ~repeated) =>
       /\ ret.kind = "list"
       /\ Len(ret.rows) = Cardinality(script)
       /\ \A a \in script :
             \E i \in 1..Len(ret.rows) :
                /\ PyEq(ret.rows[i].username, a.username)
                /\ PyEq(ret.rows[i].password, a.password)
       /\ db.users = <<>> => ret.rows = <<>>

\* C6: no storage error escapes a public operation: init_tables and
\* create_user return exactly True or False, get_user a record, None or
\* False, also without a schema; and a write that returns False leaves the
\* schema and the rows as they were.
C6_NoErrorEscapes ==
    /\ (IsCall("init_tables") \/ IsCall("create_user")) =>
          /\ ret.kind \in {"True", "False"}
          /\ ret.kind = "False" => db = call.before
    /\ IsCall("get_user") => ret.kind \in {"dict", "None", "False"}

\* C6 witness: create_user has returned False on a store without a schema.
C6_Witness ==
    /\ IsCall("create_user") /\ ret.kind = "False"
    /\ call.before.tables = {}
    /\ ret.error = "OperationalError"

\* C7: every write runs in a transaction scope resolved on every exit path:
\* True means the change is committed, False means it is rolled back, and no
\* transaction is left open on the connection.
C7_TransactionResolved ==
    /\ \A c \in Conns : ~conn[c].inTransaction /\ conn[c].pending = <<>>
    /\ (IsCall("init_tables") /\ ret.kind = "True") => "users" \in db.tables
    /\ (IsCall("create_user") /\ ret.kind = "True") =>
          /\ Len(db.users) = Len(call.before.users) + 1
          /\ SubSeq(db.users, 1, Len(call.before.users)) = call.before.users
          /\ Len(db.users) \in RowsOf(db, call.username)
    /\ ((IsCall("init_tables") \/ IsCall("create_user")) /\ ret.kind # "True")
       => db = call.before

\* C7 witness: a create_user whose INSERT failed inside its transaction
\* (after the implicit BEGIN) has returned, and another one has committed.
C7_Witness ==
    /\ IsCall("create_user")
    /\ ret.error \in {"IntegrityError", "ProgrammingError"}
    /\ Len(db.users) > 0

\* C8: the users table holds at most one row per username.
C8_UniqueUsername ==
    \A i, j \in 1..Len(db.users) : i # j => db.users[i][1] # db.users[j][1]

\* C8 witness: two users are stored and an INSERT of a stored username has
\* been refused.
C8_Witness ==
    /\ Len(db.users) >= 2
    /\ IsCall("create_user") /\ ret.error = "IntegrityError"

\* C9: the rows only grow: no operation removes or changes a stored row, the
\* reads change nothing, and a row is added only by a create_user call that
\* returns True.
C9_RowsOnlyGrow ==
    [][ /\ Len(db'.users) >= Len(db.users)
        /\ SubSeq(db'.users, 1, Len(db.users)) = db.users
        /\ db.tables \subseteq db'.tables
        /\ db'.users # db.users =>
              /\ call'.op = "create_user" /\ ret'.kind = "True"
              /\ Len(db'.users) = Len(db.users) + 1
        /\ (call' # call /\ call'.op \in {"get_user", "_fetchone", "_fetchall"})
           => db' = db
      ]_vars

\* C9 witness: rows are stored and init_tables has been called over them.
C9_Witness ==
    /\ IsCall("init_tables")
    /\ Len(call.before.users) >= 2
    /\ db.users = call.before.users

\* C10 (as stated): every row's registration_time is a non-null integer
\* number of seconds since the epoch, non-decreasing in insertion order.
C10_IntegerSeconds ==
    /\ \A i \in 1..Len(db.users) : db.users[i][2].type = "INTEGER"
    /\ \A i, j \in 1..Len(db.users) :
          i <= j => Ticks(db.users[i][2]) <= Ticks(db.users[j][2])

====
